---- MODULE Spec2Model ----
(***************************************************************************)
(* QBX expansion formation, translation and evaluation kernels of          *)
(* pytential/qbx/interactions.py, as a state machine over the arrays the   *)
(* kernels read and write.  One action is one kernel invocation.           *)
(* Arithmetic is exact (integers); the space dimension is 1.               *)
(***************************************************************************)
EXTENDS Integers, Sequences, FiniteSets, TLC

\* ------------------------------------------------------------------------
\* Bounds
\* ------------------------------------------------------------------------

\* number of kernel invocations in one behaviour
MaxCalls == 2

\* ------------------------------------------------------------------------
\* Arrays are 0-based, as in the kernels
\* ------------------------------------------------------------------------

Arr(s) == [i \in 0..(Len(s) - 1) |-> s[i + 1]]

Size(a) == Cardinality(DOMAIN a)

\* a view of n rows of arr starting at row base (offset=lp.auto arguments)
View(arr, base, n) == [r \in 0..(n - 1) |-> arr[base + r]]

\* the array arr with the rows of view written back at offset base
WriteBack(arr, base, view) ==
    [b \in DOMAIN arr |-> IF (b - base) \in DOMAIN view THEN view[b - base] ELSE arr[b]]

\* ------------------------------------------------------------------------
\* Coefficient rows and the expansion capability (formation, translation,
\* evaluation rules are supplied by the expansion object; they are linear)
\* ------------------------------------------------------------------------

ncoeffs == 2

nresults == 2

kernel_scaling == 2

ZeroRow == [i \in 1..ncoeffs |-> 0]

ZeroResult == [i \in 1..nresults |-> 0]

VecAdd(u, v) == [i \in DOMAIN u |-> u[i] + v[i]]

Scale(k, u) == [i \in DOMAIN u |-> k * u[i]]

\* coeff{i} of one unit-strength source at displacement a from the centre
P2ECoeffs(a) == <<1, a>>

\* coeff{i} of the target expansion from src_coeff{i} across displacement d
E2ECoeffs(d, src_coeff) == <<src_coeff[1], src_coeff[2] + d * src_coeff[1]>>

\* result_{i}_p of the expansion coeff at displacement b from its centre
E2PResults(b, coeff) == <<coeff[1] + b * coeff[2], coeff[2]>>

\* ------------------------------------------------------------------------
\* Tree, particles and centres (immutable inputs)
\* ------------------------------------------------------------------------

\* box centres, by global box number
centers == Arr(<<4, 2, 6, 7>>)

\* first box number of every level, and one past the last box
level_start_box_nrs == Arr(<<0, 1, 3, 4>>)

nlevels == Size(level_start_box_nrs) - 1

LevelBoxes(lev) == level_start_box_nrs[lev]..(level_start_box_nrs[lev + 1] - 1)

sources == Arr(<<1, 3, 5, 7>>)

strengths == Arr(<<1, 2, 3, 1>>)

box_source_starts == Arr(<<0, 0, 2, 3>>)

box_source_counts_nonchild == Arr(<<0, 2, 1, 1>>)

targets == Arr(<<0, 2, 6, 8>>)

box_target_starts == Arr(<<0, 0, 2, 3>>)

box_target_counts_nonchild == Arr(<<0, 2, 1, 1>>)

\* global box numbers of the target boxes
target_boxes == Arr(<<1, 2, 3>>)

qbx_centers == Arr(<<1, 3, 7>>)

\* per centre: index into target_boxes of the box containing it
qbx_center_to_target_box == Arr(<<0, 0, 2>>)

ncenters == Size(qbx_centers)

Centers == DOMAIN qbx_centers

Boxes == DOMAIN centers

Sources == DOMAIN sources

Targets == DOMAIN targets

\* local expansions of the boxes, by global box number
local_exps == [b \in Boxes |-> <<b + 1, 2 * b + 1>>]

\* ------------------------------------------------------------------------
\* Compressed adjacency lists (starts, lists) of the callers
\* ------------------------------------------------------------------------

RECURSIVE Flatten(_)
Flatten(slices) ==
    IF slices = <<>> THEN <<>> ELSE Head(slices) \o Flatten(Tail(slices))

\* starts[b] .. starts[b+1] bounds the slice of owner b in lists
CSRStarts(slices) ==
    [b \in 0..Len(slices) |-> Len(Flatten(SubSeq(slices, 1, b)))]

CSRLists(slices) == Arr(Flatten(slices))

\* ------------------------------------------------------------------------
\* State
\* ------------------------------------------------------------------------

VARIABLES
    qbx_expansions,      \* [centre -> row]: local expansions of the QBX centres
    mpole_exps,          \* [box -> row]: box multipoles (all levels)
    src_qbx_expansions,  \* [source -> row]: per-source QBX multipoles
    result,              \* [target -> <<result_0, result_1>>]
    global_qbx_centers,  \* the active centres of the geometry (a list of centres)
    op,                  \* name of the kernel invoked last
    kw,                  \* its keyword arguments
    pre,                 \* the arrays as they were when it was invoked
    prev,                \* op, kw and pre of the invocation before it
    rd,                  \* the array elements it read: {<<array, index>>}
    wr,                  \* the result slots it wrote: {<<target, centre>>}
    ncalls,              \* number of invocations so far
    wg,                  \* work groups of a running parallel invocation
    scaled,              \* the arrays of a second run whose inputs are multiplied by alpha
    log,                 \* the invocations so far, oldest first: <<[op, kw], ...>>
    exec                 \* the frame of PointPotentialSource.exec_compute_potential_insn

vars == <<qbx_expansions, mpole_exps, src_qbx_expansions, result,
          global_qbx_centers, op, kw, pre, prev, rd, wr, ncalls, wg, scaled, log, exec>>

NoArray == Arr(<<>>)

NoArgs ==
    [global_qbx_centers |-> NoArray, starts |-> NoArray, lists |-> NoArray,
     base_ibox |-> 0, nboxes |-> 0, boxes |-> NoArray, qbx_centers |-> NoArray,
     strengths |-> NoArray]

\* exec_compute_potential_insn has not been called
NoExec ==
    [pc |-> "idle", outputs |-> <<>>, return_timing_data |-> FALSE, p2p |-> "None",
     gets |-> 0, next |-> 1, results |-> <<>>, warnings |-> <<>>,
     returned |-> <<>>]

\* no second run
NoScaled ==
    [alpha |-> 1, qbx_expansions |-> NoArray, src_qbx_expansions |-> NoArray,
     result |-> NoArray]

Snapshot ==
    [qbx_expansions |-> qbx_expansions, mpole_exps |-> mpole_exps,
     src_qbx_expansions |-> src_qbx_expansions, result |-> result]

\* a read of arr[i]; outside the buffer it yields whatever memory holds there
Fetch(arr, i, junk) == IF i \in DOMAIN arr THEN arr[i] ELSE junk

JunkRows == {<<0, 0>>, <<5, 3>>}

\* ------------------------------------------------------------------------
\* M2QBXL: box multipoles -> centre local expansions, over a source box list
\* ------------------------------------------------------------------------

\* simul_reduce(sum, isrc_box, coeff{i}) for isrc_box in [isrc_box, isrc_stop)
RECURSIVE M2QBXL_reduce(_, _, _, _, _)
M2QBXL_reduce(args, src_expansions, icenter, isrc_box, isrc_stop) ==
    IF isrc_box >= isrc_stop THEN ZeroRow
    ELSE LET src_ibox == args.lists[isrc_box]
             d == qbx_centers[icenter] - centers[src_ibox]
             src_coeff == src_expansions[src_ibox - args.base_ibox]
         IN  VecAdd(E2ECoeffs(d, src_coeff),
                    M2QBXL_reduce(args, src_expansions, icenter, isrc_box + 1, isrc_stop))

\* (mutation) the slice is looked up by the centre, not by its containing box
M2QBXL_slice_by_center(args, icenter) ==
    <<args.starts[icenter], args.starts[icenter + 1]>>

\* the slice bounds isrc_start, isrc_stop of centre icenter
M2QBXL_slice(args, icenter) ==
    LET icontaining_tgt_box == qbx_center_to_target_box[icenter]
    IN  <<args.starts[icontaining_tgt_box], args.starts[icontaining_tgt_box + 1]>>

\* (mutation) the row is initialised, not accumulated into
M2QBXL_write_assign(old, reduced) == reduced

\* the write_expn instruction
M2QBXL_write(old, reduced) == VecAdd(old, reduced)

\* the outer loop: icenter ranges over all of 0 <= icenter < ncenters
M2QBXL_kernel(args, src_expansions, qbx) ==
    [icenter \in 0..(ncenters - 1) |->
        LET sl == M2QBXL_slice(args, icenter)
        IN  M2QBXL_write(qbx[icenter],
                M2QBXL_reduce(args, src_expansions, icenter, sl[1], sl[2]))]

M2QBXL_reads(args) ==
    UNION {LET sl == M2QBXL_slice(args, icenter)
           IN  {<<"qbx_expansions", icenter>>}
               \cup {<<"src_expansions", args.lists[k] - args.base_ibox>> : k \in sl[1]..(sl[2] - 1)}
           : icenter \in 0..(ncenters - 1)}

\* ------------------------------------------------------------------------
\* L2QBXL: local expansion of the containing box -> centre local expansion
\* ------------------------------------------------------------------------

\* (mutation) the index into target_boxes is taken for the global box number
L2QBXL_src_ibox_direct(icenter) == qbx_center_to_target_box[icenter]

L2QBXL_src_ibox(icenter) ==
    LET isrc_box == qbx_center_to_target_box[icenter]
    IN  target_boxes[isrc_box]

\* (mutation) the upper end of the window is not checked
L2QBXL_in_range_lower_only(args, src_ibox) == args.base_ibox <= src_ibox

L2QBXL_in_range(args, src_ibox) ==
    args.base_ibox <= src_ibox /\ src_ibox < args.base_ibox + args.nboxes

\* (mutation) the translated row replaces the centre's row
L2QBXL_write_assign(old, coeff) == coeff

\* the write_expn instruction
L2QBXL_write(old, coeff) == VecAdd(old, coeff)

L2QBXL_kernel(args, expansions, qbx, junk) ==
    [icenter \in 0..(ncenters - 1) |->
        LET src_ibox == L2QBXL_src_ibox(icenter)
        IN  IF L2QBXL_in_range(args, src_ibox)
            THEN LET d == qbx_centers[icenter] - Fetch(centers, src_ibox, junk[1])
                     src_coeff == Fetch(expansions, src_ibox - args.base_ibox, junk)
                 IN  L2QBXL_write(qbx[icenter], E2ECoeffs(d, src_coeff))
            ELSE qbx[icenter]]

L2QBXL_reads(args) ==
    UNION {LET src_ibox == L2QBXL_src_ibox(icenter)
           IN  IF L2QBXL_in_range(args, src_ibox)
               THEN {<<"qbx_expansions", icenter>>, <<"centers", src_ibox>>,
                     <<"expansions", src_ibox - args.base_ibox>>}
               ELSE {}
           : icenter \in 0..(ncenters - 1)}

\* ------------------------------------------------------------------------
\* P2QBXLFromCSR: sources -> centre local expansions, over a source box list
\* ------------------------------------------------------------------------

\* the part of the reduction over isrc in [isrc, isrc_end)
RECURSIVE P2QBXLFromCSR_reduce_isrc(_, _, _, _)
P2QBXLFromCSR_reduce_isrc(args, center, isrc, isrc_end) ==
    IF isrc >= isrc_end THEN ZeroRow
    ELSE LET a == center - sources[isrc]
             strength == args.strengths[isrc]
         IN  VecAdd(Scale(strength, P2ECoeffs(a)),
                    P2QBXLFromCSR_reduce_isrc(args, center, isrc + 1, isrc_end))

\* (mutation) the count is taken for the end of the range
BoxSourceRange_count_as_end(src_ibox) ==
    <<box_source_starts[src_ibox], box_source_counts_nonchild[src_ibox]>>

\* the source range isrc_start, isrc_end of box src_ibox
BoxSourceRange(src_ibox) ==
    LET isrc_start == box_source_starts[src_ibox]
    IN  <<isrc_start, isrc_start + box_source_counts_nonchild[src_ibox]>>

\* simul_reduce(sum, (isrc_box, isrc), strength*coeff{i})
RECURSIVE P2QBXLFromCSR_reduce(_, _, _, _)
P2QBXLFromCSR_reduce(args, tgt_icenter, isrc_box, isrc_box_stop) ==
    IF isrc_box >= isrc_box_stop THEN ZeroRow
    ELSE LET src_ibox == args.lists[isrc_box]
             rng == BoxSourceRange(src_ibox)
             center == qbx_centers[tgt_icenter]
         IN  VecAdd(P2QBXLFromCSR_reduce_isrc(args, center, rng[1], rng[2]),
                    P2QBXLFromCSR_reduce(args, tgt_icenter, isrc_box + 1, isrc_box_stop))

\* (mutation) the row is accumulated into, not initialised
P2QBXLFromCSR_write_accumulate(old, reduced) == VecAdd(old, reduced)

\* the write_expn instruction
P2QBXLFromCSR_write(old, reduced) == reduced

\* (mutation) the iteration number is taken for the centre
P2QBXLFromCSR_tgt_icenter_direct(args, itgt_center) == itgt_center

\* the centre processed by iteration itgt_center
P2QBXLFromCSR_tgt_icenter(args, itgt_center) == args.global_qbx_centers[itgt_center]

\* the outer loop, from iteration itgt_center on
RECURSIVE P2QBXLFromCSR_kernel(_, _, _)
P2QBXLFromCSR_kernel(args, qbx, itgt_center) ==
    IF itgt_center >= Size(args.global_qbx_centers) THEN qbx
    ELSE LET tgt_icenter == P2QBXLFromCSR_tgt_icenter(args, itgt_center)
             itgt_box == qbx_center_to_target_box[tgt_icenter]
             isrc_box_start == args.starts[itgt_box]
             isrc_box_stop == args.starts[itgt_box + 1]
             row == P2QBXLFromCSR_write(qbx[tgt_icenter],
                        P2QBXLFromCSR_reduce(args, tgt_icenter, isrc_box_start, isrc_box_stop))
         IN  P2QBXLFromCSR_kernel(args, [qbx EXCEPT ![tgt_icenter] = row], itgt_center + 1)

\* ------------------------------------------------------------------------
\* P2QBXM: sources -> per-source multipoles; here the qbx_centers argument
\* has one centre per source (shape dim, nsources)
\* ------------------------------------------------------------------------

\* (mutation) the displacement is taken from the centre to the source
P2QBXM_a_reversed(args, isrc) == sources[isrc] - args.qbx_centers[isrc]

\* the displacement a handed to the formation rule
P2QBXM_a(args, isrc) ==
    LET center == args.qbx_centers[isrc]
    IN  center - sources[isrc]

\* (mutation) the strength is added to the coefficient
P2QBXM_write_offset(old, strength, coeff) == VecAdd(coeff, Scale(strength, <<1, 1>>))

\* the write_expn instruction
P2QBXM_write(old, strength, coeff) == Scale(strength, coeff)

\* the loop over 0 <= isrc < nsources
P2QBXM_kernel(args, rows) ==
    [isrc \in 0..(Size(sources) - 1) |->
        P2QBXM_write(rows[isrc], args.strengths[isrc], P2ECoeffs(P2QBXM_a(args, isrc)))]

\* ------------------------------------------------------------------------
\* QBXM2M: per-source multipoles -> box multipoles
\* ------------------------------------------------------------------------

\* simul_reduce(sum, isrc, coeff{i}) for isrc in [isrc, isrc_end)
RECURSIVE QBXM2M_reduce(_, _, _, _)
QBXM2M_reduce(src_rows, center, isrc, isrc_end) ==
    IF isrc >= isrc_end THEN ZeroRow
    ELSE LET d == center - sources[isrc]
             src_coeff == src_rows[isrc]
         IN  VecAdd(E2ECoeffs(d, src_coeff),
                    QBXM2M_reduce(src_rows, center, isrc + 1, isrc_end))

\* (mutation) the row is accumulated into, not initialised
QBXM2M_write_accumulate(old, reduced) == VecAdd(old, reduced)

\* the write_expn instruction
QBXM2M_write(old, reduced) == reduced

\* the outer loop, from iteration isrc_box on; src_expansions is the level's view
RECURSIVE QBXM2M_kernel(_, _, _, _)
QBXM2M_kernel(args, src_rows, src_expansions, isrc_box) ==
    IF isrc_box >= Size(args.boxes) THEN src_expansions
    ELSE LET src_ibox == args.boxes[isrc_box]
             rng == BoxSourceRange(src_ibox)
             center == centers[src_ibox]
             irow == src_ibox - args.base_ibox
             row == QBXM2M_write(src_expansions[irow],
                        QBXM2M_reduce(src_rows, center, rng[1], rng[2]))
         IN  QBXM2M_kernel(args, src_rows, [src_expansions EXCEPT ![irow] = row],
                           isrc_box + 1)

\* ------------------------------------------------------------------------
\* QBXL2P: centre local expansions -> potential at the centres' targets
\* ------------------------------------------------------------------------

\* (mutation) the list is indexed from 0 for every centre
QBXL2P_center_itgt_no_offset(args, icenter_tgt_start, icenter_tgt) ==
    args.lists[icenter_tgt - icenter_tgt_start]

\* the target written by iteration icenter_tgt
QBXL2P_center_itgt(args, icenter_tgt_start, icenter_tgt) == args.lists[icenter_tgt]

\* (mutation) the value is added to the slot, not stored in it
QBXL2P_store_accumulate(args, qbx, res, src_icenter, icenter_tgt) ==
    LET center_itgt == args.lists[icenter_tgt]
        b == targets[center_itgt] - qbx_centers[src_icenter]
    IN  [res EXCEPT ![center_itgt] =
            VecAdd(res[center_itgt], Scale(kernel_scaling, E2PResults(b, qbx[src_icenter])))]

\* the write_result instructions of one (src_icenter, icenter_tgt) iteration
QBXL2P_store(args, qbx, res, src_icenter, icenter_tgt) ==
    LET center_itgt == QBXL2P_center_itgt(args, args.starts[src_icenter], icenter_tgt)
        b == targets[center_itgt] - qbx_centers[src_icenter]
        coeff == qbx[src_icenter]
    IN  [res EXCEPT ![center_itgt] = Scale(kernel_scaling, E2PResults(b, coeff))]

\* the loop over icenter_tgt in [icenter_tgt, icenter_tgt_end)
RECURSIVE QBXL2P_targets(_, _, _, _, _, _)
QBXL2P_targets(args, qbx, res, src_icenter, icenter_tgt, icenter_tgt_end) ==
    IF icenter_tgt >= icenter_tgt_end THEN res
    ELSE QBXL2P_targets(args, qbx, QBXL2P_store(args, qbx, res, src_icenter, icenter_tgt),
                        src_icenter, icenter_tgt + 1, icenter_tgt_end)

\* the loop over iglobal_center, from iteration iglobal_center on
RECURSIVE QBXL2P_kernel(_, _, _, _)
QBXL2P_kernel(args, qbx, res, iglobal_center) ==
    IF iglobal_center >= Size(args.global_qbx_centers) THEN res
    ELSE LET src_icenter == args.global_qbx_centers[iglobal_center]
             icenter_tgt_start == args.starts[src_icenter]
             icenter_tgt_end == args.starts[src_icenter + 1]
         IN  QBXL2P_kernel(args, qbx,
                 QBXL2P_targets(args, qbx, res, src_icenter, icenter_tgt_start, icenter_tgt_end),
                 iglobal_center + 1)

\* the rows of qbx_expansions the invocation reads
QBXL2P_reads(args) ==
    {<<"qbx_expansions", args.global_qbx_centers[g]>> :
        g \in {h \in DOMAIN args.global_qbx_centers :
                  args.starts[args.global_qbx_centers[h]]
                      < args.starts[args.global_qbx_centers[h] + 1]}}

\* the slots of result the invocation writes, with the writing centre
QBXL2P_writes(args) ==
    UNION {LET src_icenter == args.global_qbx_centers[g]
           IN  {<<QBXL2P_center_itgt(args, args.starts[src_icenter], k), src_icenter>> :
                    k \in args.starts[src_icenter]..(args.starts[src_icenter + 1] - 1)}
           : g \in DOMAIN args.global_qbx_centers}

\* ------------------------------------------------------------------------
\* QBXM2PFromCSR: per-source multipoles -> potential at the targets of boxes
\* ------------------------------------------------------------------------

\* simul_reduce(sum, isrc, result_{i}_p) for isrc in [isrc, isrc_end)
RECURSIVE QBXM2PFromCSR_reduce(_, _, _, _)
QBXM2PFromCSR_reduce(src_rows, tgt, isrc, isrc_end) ==
    IF isrc >= isrc_end THEN ZeroResult
    ELSE LET coeff == src_rows[isrc]
             b == tgt - sources[isrc]
         IN  VecAdd(E2PResults(b, coeff),
                    QBXM2PFromCSR_reduce(src_rows, tgt, isrc + 1, isrc_end))

\* (mutation) the slot is overwritten by each source box
QBXM2PFromCSR_write_assign(old, reduced) == Scale(kernel_scaling, reduced)

\* the write_result instruction
QBXM2PFromCSR_write(old, reduced) == VecAdd(old, Scale(kernel_scaling, reduced))

\* the loop over itgt in [itgt, itgt_end), for one source box
RECURSIVE QBXM2PFromCSR_targets(_, _, _, _, _)
QBXM2PFromCSR_targets(src_rows, res, src_ibox, itgt, itgt_end) ==
    IF itgt >= itgt_end THEN res
    ELSE LET rng == BoxSourceRange(src_ibox)
             row == QBXM2PFromCSR_write(res[itgt],
                        QBXM2PFromCSR_reduce(src_rows, targets[itgt], rng[1], rng[2]))
         IN  QBXM2PFromCSR_targets(src_rows, [res EXCEPT ![itgt] = row], src_ibox,
                                   itgt + 1, itgt_end)

\* the slice isrc_box_start, isrc_box_end of iteration itgt_box
QBXM2PFromCSR_slice(args, itgt_box) == <<args.starts[itgt_box], args.starts[itgt_box + 1]>>

\* the loop over isrc_box in [isrc_box, isrc_box_end), for one target box
RECURSIVE QBXM2PFromCSR_src_boxes(_, _, _, _, _, _)
QBXM2PFromCSR_src_boxes(args, src_rows, res, tgt_ibox, isrc_box, isrc_box_end) ==
    IF isrc_box >= isrc_box_end THEN res
    ELSE LET src_ibox == args.lists[isrc_box]
             itgt_start == box_target_starts[tgt_ibox]
             itgt_end == itgt_start + box_target_counts_nonchild[tgt_ibox]
         IN  QBXM2PFromCSR_src_boxes(args, src_rows,
                 QBXM2PFromCSR_targets(src_rows, res, src_ibox, itgt_start, itgt_end),
                 tgt_ibox, isrc_box + 1, isrc_box_end)

\* the outer loop, from iteration itgt_box on
RECURSIVE QBXM2PFromCSR_kernel(_, _, _, _)
QBXM2PFromCSR_kernel(args, src_rows, res, itgt_box) ==
    IF itgt_box >= Size(args.boxes) THEN res
    ELSE LET tgt_ibox == args.boxes[itgt_box]
             sl == QBXM2PFromCSR_slice(args, itgt_box)
         IN  QBXM2PFromCSR_kernel(args, src_rows,
                 QBXM2PFromCSR_src_boxes(args, src_rows, res, tgt_ibox, sl[1], sl[2]),
                 itgt_box + 1)

\* ------------------------------------------------------------------------
\* Inputs of the invocations
\* ------------------------------------------------------------------------

\* per target box (by index into target_boxes): its list of partner boxes
InteractionSlices ==
    { << <<1, 2>>, <<>>, <<2>> >>,
      << <<2>>, <<1>>, <<>> >>,
      << <<3>>, <<>>, <<3>> >>,
      << <<>>, <<0>>, <<0>> >>,
      << <<2, 3>>, <<1>>, <<1, 3, 2>> >> }

\* the lists whose boxes all belong to level lev
LevelSlices(lev) ==
    {sl \in InteractionSlices :
        \A i \in 1..Len(sl) : \A k \in 1..Len(sl[i]) : sl[i][k] \in LevelBoxes(lev)}

Levels == 0..(nlevels - 1)

LevelSize(lev) == level_start_box_nrs[lev + 1] - level_start_box_nrs[lev]

\* the selections of active centres
GlobalCenterLists == {<<1>>, <<0, 2>>, <<0, 1, 2>>}

\* the source_boxes arguments
SourceBoxLists == {<<0>>, <<1>>, <<2>>, <<1, 2>>, <<3>>}

LevelSourceBoxLists(lev) ==
    {bl \in SourceBoxLists : \A i \in 1..Len(bl) : bl[i] \in LevelBoxes(lev)}

\* the target_boxes arguments of QBXM2PFromCSR
TargetBoxLists == {<<1, 2, 3>>, <<2, 3>>}

\* per target: the centre it is assigned to, or -1
TargetToCenter == {Arr(<<0, 1, -1, 2>>), Arr(<<1, 1, 2, 2>>), Arr(<<2, 0, 0, -1>>)}

RECURSIVE Ascending(_)
Ascending(S) ==
    IF S = {} THEN <<>>
    ELSE LET m == CHOOSE x \in S : \A y \in S : x <= y
         IN  <<m>> \o Ascending(S \ {m})

\* per centre: the list of the targets assigned to it
CenterToTargets(t2c) ==
    [i \in 1..ncenters |-> Ascending({t \in DOMAIN t2c : t2c[t] = i - 1})]

\* the per-source centres passed to P2QBXM
PerSourceCenters == {sources, Arr(<<2, 3, 4, 8>>)}

InitialCenterRows == {[c \in Centers |-> ZeroRow], [c \in Centers |-> <<c + 1, 1>>]}

\* ------------------------------------------------------------------------
\* Actions: one kernel invocation each
\* ------------------------------------------------------------------------

\* the arrays and the call record before the first invocation
InitArrays ==
    /\ qbx_expansions \in InitialCenterRows
    /\ mpole_exps = [b \in Boxes |-> <<b + 2, 1>>]
    /\ src_qbx_expansions = [s \in Sources |-> <<s + 1, 2>>]
    /\ result = [t \in Targets |-> <<t + 1, 1>>]
    /\ global_qbx_centers \in {Arr(gc) : gc \in GlobalCenterLists}
    /\ op = "none"
    /\ kw = NoArgs
    /\ pre = [qbx_expansions |-> qbx_expansions, mpole_exps |-> [b \in Boxes |-> <<b + 2, 1>>],
              src_qbx_expansions |-> [s \in Sources |-> <<s + 1, 2>>],
              result |-> [t \in Targets |-> <<t + 1, 1>>]]
    /\ prev = [op |-> "none", kw |-> NoArgs, pre |-> pre]
    /\ rd = {}
    /\ wr = {}
    /\ ncalls = 0
    /\ wg = NoArray
    /\ log = <<>>
    /\ exec = NoExec

Init ==
    /\ InitArrays
    /\ scaled = NoScaled

\* no work group of a parallel invocation has iterations left
Idle ==
    \A g \in DOMAIN wg : wg[g] >= kw.starts[kw.global_qbx_centers[g] + 1]

\* (mutation) a translation into the centre rows is refused once the rows
\* have been evaluated
Invoke_rejects_after_evaluation(name, args, reads, writes) ==
    /\ ~(op = "QBXL2P" /\ name \in {"M2QBXL", "L2QBXL"})
    /\ ncalls < MaxCalls
    /\ Idle
    /\ ncalls' = ncalls + 1
    /\ op' = name
    /\ kw' = args
    /\ pre' = Snapshot
    /\ prev' = [op |-> op, kw |-> kw, pre |-> pre]
    /\ UNCHANGED <<global_qbx_centers, scaled, log, exec>>
    /\ rd' = reads
    /\ wr' = writes
    /\ wg' = NoArray

Invoke(name, args, reads, writes) ==
    /\ ncalls < MaxCalls
    /\ Idle
    /\ ncalls' = ncalls + 1
    /\ op' = name
    /\ kw' = args
    /\ pre' = Snapshot
    /\ prev' = [op |-> op, kw |-> kw, pre |-> pre]
    /\ UNCHANGED <<global_qbx_centers, scaled, log, exec>>
    /\ rd' = reads
    /\ wr' = writes
    /\ wg' = NoArray

CallM2QBXL ==
    \E lev \in Levels : \E sl \in LevelSlices(lev) :
        LET args == [NoArgs EXCEPT !.starts = CSRStarts(sl), !.lists = CSRLists(sl),
                                   !.base_ibox = level_start_box_nrs[lev],
                                   !.nboxes = LevelSize(lev)]
            src_expansions == View(mpole_exps, args.base_ibox, args.nboxes)
        IN  /\ Invoke("M2QBXL", args, M2QBXL_reads(args), {})
            /\ qbx_expansions' = M2QBXL_kernel(args, src_expansions, qbx_expansions)
            /\ UNCHANGED <<mpole_exps, src_qbx_expansions, result>>

CallL2QBXL ==
    \E lev \in Levels : \E junk \in JunkRows :
        LET args == [NoArgs EXCEPT !.base_ibox = level_start_box_nrs[lev],
                                   !.nboxes = LevelSize(lev)]
            expansions == View(local_exps, args.base_ibox, args.nboxes)
        IN  /\ Invoke("L2QBXL", args, L2QBXL_reads(args), {})
            /\ qbx_expansions' = L2QBXL_kernel(args, expansions, qbx_expansions, junk)
            /\ UNCHANGED <<mpole_exps, src_qbx_expansions, result>>

CallP2QBXLFromCSR ==
    \E sl \in InteractionSlices :
        LET args == [NoArgs EXCEPT !.global_qbx_centers = global_qbx_centers,
                                   !.starts = CSRStarts(sl), !.lists = CSRLists(sl),
                                   !.strengths = strengths]
        IN  /\ Invoke("P2QBXLFromCSR", args, {}, {})
            /\ qbx_expansions' = P2QBXLFromCSR_kernel(args, qbx_expansions, 0)
            /\ UNCHANGED <<mpole_exps, src_qbx_expansions, result>>

CallP2QBXM ==
    \E pc \in PerSourceCenters :
        LET args == [NoArgs EXCEPT !.qbx_centers = pc, !.strengths = strengths]
        IN  /\ Invoke("P2QBXM", args, {}, {})
            /\ src_qbx_expansions' = P2QBXM_kernel(args, src_qbx_expansions)
            /\ UNCHANGED <<qbx_expansions, mpole_exps, result>>

CallQBXM2M ==
    \E lev \in Levels : \E bl \in LevelSourceBoxLists(lev) :
        LET args == [NoArgs EXCEPT !.boxes = Arr(bl),
                                   !.base_ibox = level_start_box_nrs[lev],
                                   !.nboxes = LevelSize(lev)]
            src_expansions == View(mpole_exps, args.base_ibox, args.nboxes)
        IN  /\ Invoke("QBXM2M", args, {}, {})
            /\ mpole_exps' = WriteBack(mpole_exps, args.base_ibox,
                                 QBXM2M_kernel(args, src_qbx_expansions, src_expansions, 0))
            /\ UNCHANGED <<qbx_expansions, src_qbx_expansions, result>>

CallQBXL2P ==
    \E t2c \in TargetToCenter :
        LET args == [NoArgs EXCEPT !.global_qbx_centers = global_qbx_centers,
                                   !.starts = CSRStarts(CenterToTargets(t2c)),
                                   !.lists = CSRLists(CenterToTargets(t2c))]
        IN  /\ Invoke("QBXL2P", args, QBXL2P_reads(args), QBXL2P_writes(args))
            /\ result' = QBXL2P_kernel(args, qbx_expansions, result, 0)
            /\ UNCHANGED <<qbx_expansions, mpole_exps, src_qbx_expansions>>

CallQBXM2PFromCSR ==
    \E tb \in TargetBoxLists : \E sl \in InteractionSlices :
        LET args == [NoArgs EXCEPT !.boxes = Arr(tb),
                                   !.starts = CSRStarts(sl), !.lists = CSRLists(sl)]
        IN  /\ Invoke("QBXM2PFromCSR", args, {}, {})
            /\ result' = QBXM2PFromCSR_kernel(args, src_qbx_expansions, result, 0)
            /\ UNCHANGED <<qbx_expansions, mpole_exps, src_qbx_expansions>>

Next ==
    \/ CallP2QBXLFromCSR
    \/ CallP2QBXM
    \/ CallQBXM2M
    \/ CallM2QBXL
    \/ CallL2QBXL
    \/ CallQBXL2P
    \/ CallQBXM2PFromCSR

Spec == Init /\ [][Next]_vars

\* ------------------------------------------------------------------------
\* QBXL2P with iglobal_center mapped to work groups (tag g.0): the groups
\* run concurrently, each one its own icenter_tgt loop in order
\* ------------------------------------------------------------------------

\* the invocation is launched: every group stands at its icenter_tgt_start
LaunchQBXL2P ==
    \E t2c \in TargetToCenter :
        LET args == [NoArgs EXCEPT !.global_qbx_centers = global_qbx_centers,
                                   !.starts = CSRStarts(CenterToTargets(t2c)),
                                   !.lists = CSRLists(CenterToTargets(t2c))]
        IN  /\ ncalls < MaxCalls
            /\ Idle
            /\ ncalls' = ncalls + 1
            /\ op' = "QBXL2P"
            /\ kw' = args
            /\ pre' = Snapshot
            /\ prev' = [op |-> op, kw |-> kw, pre |-> pre]
            /\ rd' = {}
            /\ wr' = {}
            /\ wg' = [g \in DOMAIN args.global_qbx_centers |->
                         args.starts[args.global_qbx_centers[g]]]
            /\ UNCHANGED <<qbx_expansions, mpole_exps, src_qbx_expansions, result,
                           global_qbx_centers, scaled, log, exec>>

\* group g runs its next icenter_tgt iteration
StepQBXL2P(g) ==
    LET src_icenter == kw.global_qbx_centers[g]
        icenter_tgt == wg[g]
    IN  /\ icenter_tgt < kw.starts[src_icenter + 1]
        /\ result' = QBXL2P_store(kw, qbx_expansions, result, src_icenter, icenter_tgt)
        /\ rd' = rd \cup {<<"qbx_expansions", src_icenter>>}
        /\ wr' = wr \cup {<<QBXL2P_center_itgt(kw, kw.starts[src_icenter], icenter_tgt),
                            src_icenter>>}
        /\ wg' = [wg EXCEPT ![g] = icenter_tgt + 1]
        /\ UNCHANGED <<qbx_expansions, mpole_exps, src_qbx_expansions,
                       global_qbx_centers, scaled, log, exec, op, kw, pre, prev, ncalls>>

NextPar ==
    \/ LaunchQBXL2P
    \/ \E g \in DOMAIN wg : StepQBXL2P(g)
    \/ CallL2QBXL

SpecPar == Init /\ [][NextPar]_vars

\* ------------------------------------------------------------------------
\* M2QBXL and L2QBXL with icenter distributed over parallel workers
\* (split_iname(knl, "icenter", 16, outer_tag="g.0")).  A work group runs its
\* 16 consecutive centres in order; the model runs one worker per centre,
\* which admits every schedule of the groups and more.  A worker forms its
\* reduction privately, then loads its row, then stores row + reduction.
\* ------------------------------------------------------------------------

\* (mutation) the row of the containing target box is written
ExpansionRow_of_box(icenter) == qbx_center_to_target_box[icenter]

\* the row of qbx_expansions that the iteration icenter reads and writes
ExpansionRow(icenter) == icenter

WorkersDone == \A c \in DOMAIN wg : wg[c].pc = "done"

LaunchWorkers(name, args) ==
    /\ ncalls < MaxCalls
    /\ (wg = NoArray \/ WorkersDone)
    /\ ncalls' = ncalls + 1
    /\ op' = name
    /\ kw' = args
    /\ pre' = Snapshot
    /\ prev' = [op |-> op, kw |-> kw, pre |-> pre]
    /\ rd' = {}
    /\ wr' = {}
    /\ wg' = [icenter \in 0..(ncenters - 1) |->
                 [pc |-> "start", acc |-> ZeroRow, old |-> ZeroRow]]
    /\ UNCHANGED <<qbx_expansions, mpole_exps, src_qbx_expansions, result,
                   global_qbx_centers, scaled, log, exec>>

LaunchM2QBXL ==
    \E lev \in Levels : \E sl \in LevelSlices(lev) :
        LaunchWorkers("M2QBXL",
            [NoArgs EXCEPT !.starts = CSRStarts(sl), !.lists = CSRLists(sl),
                           !.base_ibox = level_start_box_nrs[lev],
                           !.nboxes = LevelSize(lev)])

LaunchL2QBXL ==
    \E lev \in Levels :
        LaunchWorkers("L2QBXL",
            [NoArgs EXCEPT !.base_ibox = level_start_box_nrs[lev],
                           !.nboxes = LevelSize(lev)])

\* the worker of icenter forms its private reduction (L2QBXL: its one
\* translated row, or nothing at all when the box is outside the window)
WorkerReduce(icenter) ==
    /\ wg # NoArray
    /\ wg[icenter].pc = "start"
    /\ IF op = "M2QBXL"
       THEN LET sl == M2QBXL_slice(kw, icenter)
                red == M2QBXL_reduce(kw, View(mpole_exps, kw.base_ibox, kw.nboxes),
                                     icenter, sl[1], sl[2])
            IN  wg' = [wg EXCEPT ![icenter] = [pc |-> "reduced", acc |-> red, old |-> ZeroRow]]
       ELSE LET src_ibox == L2QBXL_src_ibox(icenter)
            IN  IF L2QBXL_in_range(kw, src_ibox)
                THEN LET d == qbx_centers[icenter] - centers[src_ibox]
                         src_coeff == View(local_exps, kw.base_ibox, kw.nboxes)
                                          [src_ibox - kw.base_ibox]
                     IN  wg' = [wg EXCEPT ![icenter] =
                                   [pc |-> "reduced", acc |-> E2ECoeffs(d, src_coeff),
                                    old |-> ZeroRow]]
                ELSE wg' = [wg EXCEPT ![icenter].pc = "done"]
    /\ UNCHANGED <<qbx_expansions, mpole_exps, src_qbx_expansions, result,
                   global_qbx_centers, scaled, log, exec, op, kw, pre, prev, rd, wr, ncalls>>

\* the worker loads its row
WorkerLoad(icenter) ==
    /\ wg # NoArray
    /\ wg[icenter].pc = "reduced"
    /\ wg' = [wg EXCEPT ![icenter].pc = "loaded",
                        ![icenter].old = qbx_expansions[ExpansionRow(icenter)]]
    /\ rd' = rd \cup {<<"qbx_expansions", ExpansionRow(icenter)>>}
    /\ UNCHANGED <<qbx_expansions, mpole_exps, src_qbx_expansions, result,
                   global_qbx_centers, scaled, log, exec, op, kw, pre, prev, wr, ncalls>>

\* the worker stores the loaded row plus its reduction
WorkerStore(icenter) ==
    /\ wg # NoArray
    /\ wg[icenter].pc = "loaded"
    /\ qbx_expansions' =
          [qbx_expansions EXCEPT ![ExpansionRow(icenter)] =
              IF op = "M2QBXL" THEN M2QBXL_write(wg[icenter].old, wg[icenter].acc)
                               ELSE L2QBXL_write(wg[icenter].old, wg[icenter].acc)]
    /\ wr' = wr \cup {<<ExpansionRow(icenter), icenter>>}
    /\ wg' = [wg EXCEPT ![icenter].pc = "done"]
    /\ UNCHANGED <<mpole_exps, src_qbx_expansions, result,
                   global_qbx_centers, scaled, log, exec, op, kw, pre, prev, rd, ncalls>>

NextRows ==
    \/ LaunchM2QBXL
    \/ LaunchL2QBXL
    \/ \E icenter \in 0..(ncenters - 1) : WorkerReduce(icenter)
    \/ \E icenter \in 0..(ncenters - 1) : WorkerLoad(icenter)
    \/ \E icenter \in 0..(ncenters - 1) : WorkerStore(icenter)

SpecRows == Init /\ [][NextRows]_vars

\* ------------------------------------------------------------------------
\* Two runs side by side: the kernels applied to the arrays of the model,
\* and the same kernels with the same arguments applied to a second set of
\* arrays whose strengths, box multipoles and box locals are multiplied by
\* scaled.alpha.  The centre rows and result slots of the second run start
\* with the same contents as those of the first.
\* ------------------------------------------------------------------------

Alphas == {-1, 2, 3}

ScaleRows(alpha, rows) == [i \in DOMAIN rows |-> Scale(alpha, rows[i])]

ScaleArr(alpha, a) == [i \in DOMAIN a |-> alpha * a[i]]

InitLinear ==
    /\ InitArrays
    /\ \E alpha \in Alphas :
          scaled = [alpha |-> alpha, qbx_expansions |-> qbx_expansions,
                    src_qbx_expansions |-> src_qbx_expansions, result |-> result]

\* the call record of one kernel run on both sets of arrays
InvokeBoth(name, args) ==
    /\ ncalls' = ncalls + 1
    /\ op' = name
    /\ kw' = args
    /\ pre' = Snapshot
    /\ prev' = [op |-> op, kw |-> kw, pre |-> pre]
    /\ rd' = {}
    /\ wr' = {}
    /\ UNCHANGED <<global_qbx_centers, wg, log, exec>>

BothP2QBXM ==
    /\ op = "none"
    /\ \E pc \in PerSourceCenters :
        LET args == [NoArgs EXCEPT !.qbx_centers = pc, !.strengths = strengths]
            sargs == [args EXCEPT !.strengths = ScaleArr(scaled.alpha, strengths)]
        IN  /\ InvokeBoth("P2QBXM", args)
            /\ src_qbx_expansions' = P2QBXM_kernel(args, src_qbx_expansions)
            /\ scaled' = [scaled EXCEPT !.src_qbx_expansions =
                             P2QBXM_kernel(sargs, scaled.src_qbx_expansions)]
            /\ UNCHANGED <<qbx_expansions, mpole_exps, result>>

BothP2QBXLFromCSR ==
    /\ op = "none"
    /\ \E sl \in InteractionSlices :
        LET args == [NoArgs EXCEPT !.global_qbx_centers = global_qbx_centers,
                                   !.starts = CSRStarts(sl), !.lists = CSRLists(sl),
                                   !.strengths = strengths]
            sargs == [args EXCEPT !.strengths = ScaleArr(scaled.alpha, strengths)]
        IN  /\ InvokeBoth("P2QBXLFromCSR", args)
            /\ qbx_expansions' = P2QBXLFromCSR_kernel(args, qbx_expansions, 0)
            /\ scaled' = [scaled EXCEPT !.qbx_expansions =
                             P2QBXLFromCSR_kernel(sargs, scaled.qbx_expansions, 0)]
            /\ UNCHANGED <<mpole_exps, src_qbx_expansions, result>>

BothM2QBXL ==
    /\ op = "P2QBXLFromCSR"
    /\ \E lev \in Levels : \E sl \in LevelSlices(lev) :
        LET args == [NoArgs EXCEPT !.starts = CSRStarts(sl), !.lists = CSRLists(sl),
                                   !.base_ibox = level_start_box_nrs[lev],
                                   !.nboxes = LevelSize(lev)]
            src_expansions == View(mpole_exps, args.base_ibox, args.nboxes)
        IN  /\ InvokeBoth("M2QBXL", args)
            /\ qbx_expansions' = M2QBXL_kernel(args, src_expansions, qbx_expansions)
            /\ scaled' = [scaled EXCEPT !.qbx_expansions =
                             M2QBXL_kernel(args, ScaleRows(scaled.alpha, src_expansions),
                                           scaled.qbx_expansions)]
            /\ UNCHANGED <<mpole_exps, src_qbx_expansions, result>>

BothL2QBXL ==
    /\ op = "M2QBXL"
    /\ \E lev \in Levels : \E junk \in JunkRows :
        LET args == [NoArgs EXCEPT !.base_ibox = level_start_box_nrs[lev],
                                   !.nboxes = LevelSize(lev)]
            expansions == View(local_exps, args.base_ibox, args.nboxes)
        IN  /\ InvokeBoth("L2QBXL", args)
            /\ qbx_expansions' = L2QBXL_kernel(args, expansions, qbx_expansions, junk)
            /\ scaled' = [scaled EXCEPT !.qbx_expansions =
                             L2QBXL_kernel(args, ScaleRows(scaled.alpha, expansions),
                                           scaled.qbx_expansions, junk)]
            /\ UNCHANGED <<mpole_exps, src_qbx_expansions, result>>

BothQBXL2P ==
    /\ op = "L2QBXL"
    /\ \E t2c \in TargetToCenter :
        LET args == [NoArgs EXCEPT !.global_qbx_centers = global_qbx_centers,
                                   !.starts = CSRStarts(CenterToTargets(t2c)),
                                   !.lists = CSRLists(CenterToTargets(t2c))]
        IN  /\ InvokeBoth("QBXL2P", args)
            /\ result' = QBXL2P_kernel(args, qbx_expansions, result, 0)
            /\ scaled' = [scaled EXCEPT !.result =
                             QBXL2P_kernel(args, scaled.qbx_expansions, scaled.result, 0)]
            /\ UNCHANGED <<qbx_expansions, mpole_exps, src_qbx_expansions>>

NextLinear ==
    \/ BothP2QBXM
    \/ BothP2QBXLFromCSR
    \/ BothM2QBXL
    \/ BothL2QBXL
    \/ BothQBXL2P

SpecLinear == InitLinear /\ [][NextLinear]_vars

\* ------------------------------------------------------------------------
\* Sequences of whole invocations of P2QBXLFromCSR, M2QBXL and L2QBXL on the
\* same qbx_expansions array, with the invocations logged
\* ------------------------------------------------------------------------

MaxPipeline == 3

Logged(name, args) ==
    /\ ncalls < MaxPipeline
    /\ ncalls' = ncalls + 1
    /\ op' = name
    /\ kw' = args
    /\ pre' = Snapshot
    /\ prev' = [op |-> op, kw |-> kw, pre |-> pre]
    /\ rd' = {}
    /\ wr' = {}
    /\ log' = Append(log, [op |-> name, kw |-> args])
    /\ UNCHANGED <<global_qbx_centers, wg, scaled, exec>>

LoggedP2QBXLFromCSR ==
    \E sl \in InteractionSlices :
        LET args == [NoArgs EXCEPT !.global_qbx_centers = global_qbx_centers,
                                   !.starts = CSRStarts(sl), !.lists = CSRLists(sl),
                                   !.strengths = strengths]
        IN  /\ Logged("P2QBXLFromCSR", args)
            /\ qbx_expansions' = P2QBXLFromCSR_kernel(args, qbx_expansions, 0)
            /\ UNCHANGED <<mpole_exps, src_qbx_expansions, result>>

LoggedM2QBXL ==
    \E lev \in Levels : \E sl \in LevelSlices(lev) :
        LET args == [NoArgs EXCEPT !.starts = CSRStarts(sl), !.lists = CSRLists(sl),
                                   !.base_ibox = level_start_box_nrs[lev],
                                   !.nboxes = LevelSize(lev)]
            src_expansions == View(mpole_exps, args.base_ibox, args.nboxes)
        IN  /\ Logged("M2QBXL", args)
            /\ qbx_expansions' = M2QBXL_kernel(args, src_expansions, qbx_expansions)
            /\ UNCHANGED <<mpole_exps, src_qbx_expansions, result>>

LoggedL2QBXL ==
    \E lev \in Levels : \E junk \in JunkRows :
        LET args == [NoArgs EXCEPT !.base_ibox = level_start_box_nrs[lev],
                                   !.nboxes = LevelSize(lev)]
            expansions == View(local_exps, args.base_ibox, args.nboxes)
        IN  /\ Logged("L2QBXL", args)
            /\ qbx_expansions' = L2QBXL_kernel(args, expansions, qbx_expansions, junk)
            /\ UNCHANGED <<mpole_exps, src_qbx_expansions, result>>

NextPipeline ==
    \/ LoggedP2QBXLFromCSR
    \/ LoggedM2QBXL
    \/ LoggedL2QBXL

SpecPipeline == Init /\ [][NextPipeline]_vars

\* ------------------------------------------------------------------------
\* source.py: PointPotentialSource.exec_compute_potential_insn
\* ------------------------------------------------------------------------

MaxOutputs == 2

\* self._nodes
nodes == Arr(<<1, 4>>)

\* evaluate(insn.density)
density == Arr(<<2, 3>>)

\* the kernels of insn.kernels, as functions of the displacement
nkernels == 2

KernelValue(k, d) == IF k = 0 THEN d ELSE d * d + 1

\* bound_expr.places: a plain point set and a Discretization of two groups
Places ==
    [pts  |-> [is_discretization |-> FALSE, nodes |-> Arr(<<0, 2, 5>>)],
     mesh |-> [is_discretization |-> TRUE,  nodes |-> << <<3, 6>>, <<8>> >>]]

get_discretization(target_name) == Places[target_name]

\* a DOF array becomes one flat array, anything else is passed through
flatten_if_needed(discr) ==
    IF discr.is_discretization THEN Arr(Flatten(discr.nodes)) ELSE discr.nodes

\* a flat array is cut into the groups of the discretization
unflatten(discr, ary) ==
    [g \in DOMAIN discr.nodes |->
        [j \in DOMAIN discr.nodes[g] |->
            ary[Len(Flatten(SubSeq(discr.nodes, 1, g - 1))) + j - 1]]]

\* the sum over the sources isrc.. of one kernel at one target point
RECURSIVE P2P_sum(_, _, _, _)
P2P_sum(k, tgt, strength, isrc) ==
    IF isrc >= Size(nodes) THEN 0
    ELSE strength[isrc] * KernelValue(k, tgt - nodes[isrc])
         + P2P_sum(k, tgt, strength, isrc + 1)

\* p2p(queue, targets, sources, [strengths]): one array per kernel
p2p(tgts, strength) ==
    [k \in 0..(nkernels - 1) |-> [t \in DOMAIN tgts |-> P2P_sum(k, tgts[t], strength, 0)]]

\* the possible entries of insn.outputs
Outputs ==
    [name : {"u", "v"}, kernel_index : 0..(nkernels - 1), target_name : {"pts", "mesh"}]

OutputLists == UNION {[1..n -> Outputs] : n \in 0..MaxOutputs}

\* (mutation) a fresh routine is obtained for every output
NeedP2P_always(current) == TRUE

\* if p2p is None
NeedP2P(current) == current = "None"

\* (mutation) the first kernel's output is taken for every entry
SelectOutput_first(output_for_each_kernel, o) == output_for_each_kernel[0]

\* result = output_for_each_kernel[o.kernel_index]
SelectOutput(output_for_each_kernel, o) == output_for_each_kernel[o.kernel_index]

\* entry: the warning, p2p = None, results = []
ExecEnter ==
    /\ exec.pc = "idle"
    /\ \E outs \in OutputLists : \E rtd \in BOOLEAN :
          exec' = [NoExec EXCEPT
                      !.pc = "loop", !.outputs = outs, !.return_timing_data = rtd,
                      !.warnings = IF rtd THEN <<"UnableToCollectTimingData">> ELSE <<>>]
    /\ UNCHANGED <<qbx_expansions, mpole_exps, src_qbx_expansions, result,
                   global_qbx_centers, op, kw, pre, prev, rd, wr, ncalls, wg, scaled, log>>

\* one iteration of  for o in insn.outputs
ExecOutput ==
    /\ exec.pc = "loop"
    /\ exec.next <= Len(exec.outputs)
    /\ LET o == exec.outputs[exec.next]
           target_discr == get_discretization(o.target_name)
           get == NeedP2P(exec.p2p)
           output_for_each_kernel == p2p(flatten_if_needed(target_discr), density)
           picked == SelectOutput(output_for_each_kernel, o)
           value == IF target_discr.is_discretization
                    THEN unflatten(target_discr, picked) ELSE picked
       IN  exec' = [exec EXCEPT
                       !.p2p = "P2P",
                       !.gets = IF get THEN @ + 1 ELSE @,
                       !.results = Append(@, <<o.name, value>>),
                       !.next = @ + 1]
    /\ UNCHANGED <<qbx_expansions, mpole_exps, src_qbx_expansions, result,
                   global_qbx_centers, op, kw, pre, prev, rd, wr, ncalls, wg, scaled, log>>

\* timing_data = {}; return results, timing_data
ExecReturn ==
    /\ exec.pc = "loop"
    /\ exec.next > Len(exec.outputs)
    /\ exec' = [exec EXCEPT !.pc = "returned", !.returned = <<exec.results, {}>>]
    /\ UNCHANGED <<qbx_expansions, mpole_exps, src_qbx_expansions, result,
                   global_qbx_centers, op, kw, pre, prev, rd, wr, ncalls, wg, scaled, log>>

NextExec ==
    \/ ExecEnter
    \/ ExecOutput
    \/ ExecReturn

SpecExec == Init /\ [][NextExec]_vars

\* ------------------------------------------------------------------------
\* Properties
\* ------------------------------------------------------------------------

\* the sum of the rows f[x], x in S
RECURSIVE SumRows(_, _)
SumRows(f, S) ==
    IF S = {} THEN ZeroRow
    ELSE LET x == CHOOSE y \in S : TRUE
         IN  VecAdd(f[x], SumRows(f, S \ {x}))

\* global number of the box containing centre c
OwningBox(c) == target_boxes[qbx_center_to_target_box[c]]

\* positions in a.lists of the slice of the owner with index t
SliceOf(a, t) == a.starts[t]..(a.starts[t + 1] - 1)

SlicePositions(t) == SliceOf(kw, t)

\* the elements of an array
Range(a) == {a[i] : i \in DOMAIN a}

\* the sources box b owns directly
OwnSources(b) ==
    {s \in Sources : box_source_starts[b] <= s
                     /\ s < box_source_starts[b] + box_source_counts_nonchild[b]}

\* the targets box b owns directly
OwnTargets(b) ==
    {t \in Targets : box_target_starts[b] <= t
                     /\ t < box_target_starts[b] + box_target_counts_nonchild[b]}

\* the (list position, source) pairs of the slice of owner t
SlicePairs(a, t) == {<<k, s>> \in SliceOf(a, t) \X Sources : s \in OwnSources(a.lists[k])}

\* C1: after M2QBXL, every centre's row is its previous row plus the sum,
\* over the boxes b of the slice of the centre's containing target box, of
\* the translation of b's multipole (row b - src_base_ibox of the level's
\* storage) across qbx_centers[c] - centers[b]; nothing else contributes.
C1_M2QBXLSum ==
    op = "M2QBXL" =>
        \A c \in Centers :
            LET K == SlicePositions(qbx_center_to_target_box[c])
                contrib == [k \in K |->
                    E2ECoeffs(qbx_centers[c] - centers[kw.lists[k]],
                              pre.mpole_exps[kw.lists[k]])]
            IN  qbx_expansions[c] = VecAdd(pre.qbx_expansions[c], SumRows(contrib, K))

C1_Witness ==
    /\ op = "M2QBXL"
    /\ kw.base_ibox > 0
    /\ \E c \in Centers :
          /\ Cardinality(SlicePositions(qbx_center_to_target_box[c])) >= 2
          /\ pre.qbx_expansions[c] # ZeroRow
          /\ qbx_expansions[c] # pre.qbx_expansions[c]

InWindow(c) == kw.base_ibox <= OwningBox(c) /\ OwningBox(c) < kw.base_ibox + kw.nboxes

\* C2: after L2QBXL, a centre whose containing box lies outside
\* [target_base_ibox, target_base_ibox + nboxes) has its row unchanged, and
\* neither expansions[src_ibox - target_base_ibox] nor centers[src_ibox] was
\* read for it; the centres inside the window are processed all the same.
C2_L2QBXLRangeGuard ==
    op = "L2QBXL" =>
        /\ \A c \in Centers : ~InWindow(c) =>
              /\ qbx_expansions[c] = pre.qbx_expansions[c]
              /\ <<"expansions", OwningBox(c) - kw.base_ibox>> \notin rd
              /\ <<"centers", OwningBox(c)>> \notin rd
              /\ <<"qbx_expansions", c>> \notin rd
        /\ \A c \in Centers : InWindow(c) => <<"qbx_expansions", c>> \in rd

C2_Witness ==
    /\ op = "L2QBXL"
    /\ \E c \in Centers : OwningBox(c) >= kw.base_ibox + kw.nboxes
    /\ \E c \in Centers : InWindow(c) /\ qbx_expansions[c] # pre.qbx_expansions[c]

\* C3: after L2QBXL, a centre whose containing box b lies in the window has
\* its previous row plus exactly the translation of b's local expansion
\* across qbx_centers[c] - centers[b], and every row of expansions that was
\* read has an index in [0, nboxes).
C3_L2QBXLInRange ==
    op = "L2QBXL" =>
        /\ \A c \in Centers : InWindow(c) =>
              qbx_expansions[c] =
                  VecAdd(pre.qbx_expansions[c],
                         E2ECoeffs(qbx_centers[c] - centers[OwningBox(c)],
                                   local_exps[OwningBox(c)]))
        /\ \A a \in rd : a[1] = "expansions" => (0 <= a[2] /\ a[2] < kw.nboxes)

C3_Witness ==
    /\ op = "L2QBXL"
    /\ kw.base_ibox > 0
    /\ \E c \in Centers :
          /\ InWindow(c)
          /\ pre.qbx_expansions[c] # ZeroRow
          /\ <<"expansions", OwningBox(c) - kw.base_ibox>> \in rd

\* what an M2QBXL invocation with arguments a on arrays m contributes to centre c
M2QBXLSum(a, m, c) ==
    LET K == SliceOf(a, qbx_center_to_target_box[c])
    IN  SumRows([k \in K |-> E2ECoeffs(qbx_centers[c] - centers[a.lists[k]],
                                       m.mpole_exps[a.lists[k]])], K)

\* what an L2QBXL invocation with arguments a contributes to centre c
L2QBXLTerm(a, c) ==
    IF a.base_ibox <= OwningBox(c) /\ OwningBox(c) < a.base_ibox + a.nboxes
    THEN E2ECoeffs(qbx_centers[c] - centers[OwningBox(c)], local_exps[OwningBox(c)])
    ELSE ZeroRow

Contribution(o, a, m, c) ==
    IF o = "M2QBXL" THEN M2QBXLSum(a, m, c) ELSE L2QBXLTerm(a, c)

\* what a QBXM2M invocation on arrays m computes for box b
QBXM2MSum(m, b) ==
    SumRows([s \in OwnSources(b) |->
                E2ECoeffs(centers[b] - sources[s], m.src_qbx_expansions[s])],
            OwnSources(b))

CenterAccumulators == {"M2QBXL", "L2QBXL"}

\* C4 (as stated): QBXM2M, M2QBXL and L2QBXL all leave, in every row they
\* touch, the row's previous value plus the invocation's contributions.
C4_AllThreeAccumulate ==
    /\ op \in CenterAccumulators =>
          \A c \in Centers :
              qbx_expansions[c] = VecAdd(pre.qbx_expansions[c], Contribution(op, kw, pre, c))
    /\ op = "QBXM2M" =>
          \A b \in Range(kw.boxes) :
              mpole_exps[b] = VecAdd(pre.mpole_exps[b], QBXM2MSum(pre, b))

\* C4 (amended): M2QBXL and L2QBXL accumulate: a centre's row is its previous
\* value plus the invocation's contribution, and after two successive such
\* invocations it is the value before the first plus both contributions.
\* QBXM2M initialises: the row of a listed box is the sum of the
\* translations of its own sources' rows, whatever it held before.
C4_CenterTranslationsAccumulate ==
    /\ op \in CenterAccumulators =>
          \A c \in Centers :
              qbx_expansions[c] = VecAdd(pre.qbx_expansions[c], Contribution(op, kw, pre, c))
    /\ (op \in CenterAccumulators /\ prev.op \in CenterAccumulators) =>
          \A c \in Centers :
              qbx_expansions[c] =
                  VecAdd(prev.pre.qbx_expansions[c],
                         VecAdd(Contribution(prev.op, prev.kw, prev.pre, c),
                                Contribution(op, kw, pre, c)))
    /\ op = "QBXM2M" =>
          \A b \in Range(kw.boxes) : mpole_exps[b] = QBXM2MSum(pre, b)

C4_Witness ==
    /\ op = "M2QBXL"
    /\ prev.op = "L2QBXL"
    /\ \E c \in Centers :
          /\ prev.pre.qbx_expansions[c] # ZeroRow
          /\ Contribution(prev.op, prev.kw, prev.pre, c) # ZeroRow
          /\ Contribution(op, kw, pre, c) # ZeroRow

EmptySlice(a, c) ==
    a.starts[qbx_center_to_target_box[c]] = a.starts[qbx_center_to_target_box[c] + 1]

\* C5 (as stated): in P2QBXLFromCSR and in M2QBXL, a processed centre whose
\* slice is empty keeps its row.
C5_EmptySliceKeepsRow ==
    /\ op = "M2QBXL" =>
          \A c \in Centers : EmptySlice(kw, c) => qbx_expansions[c] = pre.qbx_expansions[c]
    /\ op = "P2QBXLFromCSR" =>
          \A c \in Range(global_qbx_centers) :
              EmptySlice(kw, c) => qbx_expansions[c] = pre.qbx_expansions[c]

\* C5 (amended): in M2QBXL a centre whose slice is empty keeps its row; in
\* P2QBXLFromCSR an active centre whose slice is empty gets the zero row,
\* whatever the row held before.
C5_EmptySlice ==
    /\ op = "M2QBXL" =>
          \A c \in Centers : EmptySlice(kw, c) => qbx_expansions[c] = pre.qbx_expansions[c]
    /\ op = "P2QBXLFromCSR" =>
          \A c \in Range(global_qbx_centers) :
              EmptySlice(kw, c) => qbx_expansions[c] = ZeroRow

C5_Witness ==
    /\ op = "M2QBXL"
    /\ \E c \in Centers : EmptySlice(kw, c) /\ pre.qbx_expansions[c] # ZeroRow
    /\ prev.op = "P2QBXLFromCSR"
    /\ \E c \in Range(global_qbx_centers) :
          EmptySlice(prev.kw, c) /\ prev.pre.qbx_expansions[c] # ZeroRow

\* the sum P2QBXLFromCSR forms for centre c from the slice of its containing box
P2QBXLSum(a, c) ==
    LET P == SlicePairs(a, qbx_center_to_target_box[c])
    IN  SumRows([p \in P |->
                    Scale(strengths[p[2]], P2ECoeffs(qbx_centers[c] - sources[p[2]]))], P)

\* C6: after P2QBXLFromCSR the row of every active centre c is the sum, over
\* the boxes b of the slice of c's containing target box and the sources s
\* that b owns directly, of strengths[s] times the formation coefficients at
\* qbx_centers[c] - sources[s].
C6_P2QBXLFromCSRSum ==
    op = "P2QBXLFromCSR" =>
        \A i \in DOMAIN global_qbx_centers :
            qbx_expansions[global_qbx_centers[i]] = P2QBXLSum(kw, global_qbx_centers[i])

C6_Witness ==
    /\ op = "P2QBXLFromCSR"
    /\ \E c, e \in Range(global_qbx_centers) :
          /\ c # e
          /\ qbx_center_to_target_box[c] = qbx_center_to_target_box[e]
          /\ Cardinality(SliceOf(kw, qbx_center_to_target_box[c])) >= 2
          /\ Cardinality(SlicePairs(kw, qbx_center_to_target_box[c])) >= 3
          /\ pre.qbx_expansions[c] # ZeroRow
          /\ qbx_expansions[c] # qbx_expansions[e]

CenterLoopKernels == {"P2QBXLFromCSR", "M2QBXL", "L2QBXL", "QBXL2P"}

Inactive == Centers \ Range(global_qbx_centers)

\* C7 (as stated): P2QBXLFromCSR, M2QBXL, L2QBXL and QBXL2P neither read nor
\* modify the row of a centre that global_qbx_centers does not list.
C7_OnlyActiveCenters ==
    op \in CenterLoopKernels =>
        \A c \in Inactive :
            /\ qbx_expansions[c] = pre.qbx_expansions[c]
            /\ <<"qbx_expansions", c>> \notin rd

\* C7 (amended): P2QBXLFromCSR and QBXL2P neither read nor modify the row of
\* a centre that global_qbx_centers does not list; M2QBXL and L2QBXL take no
\* such list and process every centre 0 <= icenter < ncenters, listed or not
\* (L2QBXL: every centre whose box is inside the window).
C7_ActiveCenterSelection ==
    /\ op \in {"P2QBXLFromCSR", "QBXL2P"} =>
          \A c \in Inactive :
              /\ qbx_expansions[c] = pre.qbx_expansions[c]
              /\ <<"qbx_expansions", c>> \notin rd
    /\ op = "M2QBXL" =>
          \A c \in Centers :
              /\ <<"qbx_expansions", c>> \in rd
              /\ qbx_expansions[c] = VecAdd(pre.qbx_expansions[c], M2QBXLSum(kw, pre, c))
    /\ op = "L2QBXL" =>
          \A c \in Centers :
              /\ InWindow(c) <=> <<"qbx_expansions", c>> \in rd
              /\ qbx_expansions[c] = VecAdd(pre.qbx_expansions[c], L2QBXLTerm(kw, c))

C7_Witness ==
    /\ op = "P2QBXLFromCSR"
    /\ \E c \in Inactive :
          /\ ~EmptySlice(kw, c)
          /\ pre.qbx_expansions[c] # ZeroRow
          /\ P2QBXLSum(kw, c) # pre.qbx_expansions[c]
    /\ prev.op = "M2QBXL"
    /\ \E c \in Inactive : pre.qbx_expansions[c] # prev.pre.qbx_expansions[c]

\* the active centres whose target list holds target t
ServingCenters(t) ==
    {c \in Range(global_qbx_centers) : \E k \in SliceOf(kw, c) : kw.lists[k] = t}

\* C8: after QBXL2P, for every active centre c and every target t of its
\* list, the slot of t holds, per channel, kernel_scaling times the
\* evaluation of c's row at targets[t] - qbx_centers[c], in place of its
\* previous value; the slots of the other targets and qbx_expansions are
\* unchanged.
C8_QBXL2PWrites ==
    op = "QBXL2P" =>
        /\ \A t \in Targets : \A c \in ServingCenters(t) :
              result[t] = Scale(kernel_scaling,
                                E2PResults(targets[t] - qbx_centers[c], pre.qbx_expansions[c]))
        /\ \A t \in Targets : ServingCenters(t) = {} => result[t] = pre.result[t]
        /\ qbx_expansions = pre.qbx_expansions

C8_Witness ==
    /\ op = "QBXL2P"
    /\ \E t, u \in Targets :
          /\ ServingCenters(t) # {}
          /\ pre.result[t] # ZeroResult
          /\ result[t] # pre.result[t]
          /\ ServingCenters(u) = {}
          /\ \E c \in Inactive : \E k \in SliceOf(kw, c) : kw.lists[k] = u

\* the sum QBXM2PFromCSR forms for target t of the i-th target box
QBXM2PSum(a, m, i, t) ==
    LET P == SlicePairs(a, i)
    IN  SumRows([p \in P |->
                    E2PResults(targets[t] - sources[p[2]], m.src_qbx_expansions[p[2]])], P)

\* C10: after QBXM2PFromCSR, for the i-th target box g = target_boxes[i] and
\* every target t that g owns directly, the slot of t is its previous value
\* plus kernel_scaling times the sum, over the boxes b of slice i and the
\* sources s that b owns directly, of the evaluation of the row of s at
\* targets[t] - sources[s]; the slots of targets of unlisted boxes are
\* unchanged.
C10_QBXM2PFromCSRSum ==
    op = "QBXM2PFromCSR" =>
        /\ \A i \in DOMAIN kw.boxes : \A t \in OwnTargets(kw.boxes[i]) :
              result[t] = VecAdd(pre.result[t],
                                 Scale(kernel_scaling, QBXM2PSum(kw, pre, i, t)))
        /\ \A t \in Targets :
              (\A i \in DOMAIN kw.boxes : t \notin OwnTargets(kw.boxes[i]))
                  => result[t] = pre.result[t]

C10_Witness ==
    /\ op = "QBXM2PFromCSR"
    /\ \E i \in DOMAIN kw.boxes :
          /\ kw.boxes[i] # target_boxes[i]
          /\ Cardinality(SliceOf(kw, i)) >= 2
          /\ \E t \in OwnTargets(kw.boxes[i]) : result[t] # pre.result[t]
    /\ \E t \in Targets : \A i \in DOMAIN kw.boxes : t \notin OwnTargets(kw.boxes[i])

\* C9: in one QBXL2P invocation whose work groups run concurrently, no slot
\* of result is written by two centres, and once every group has finished
\* the result array is the one the sequential loop produces, whatever the
\* order in which the groups took their steps.
C9_QBXL2PSingleWriter ==
    op = "QBXL2P" =>
        /\ \A w, x \in wr : w[1] = x[1] => w[2] = x[2]
        /\ (wg # NoArray /\ Idle) =>
              /\ result = QBXL2P_kernel(kw, pre.qbx_expansions, pre.result, 0)
              /\ \A t \in Targets : Cardinality(ServingCenters(t)) <= 1
              /\ \A t \in Targets : \A c \in ServingCenters(t) : <<t, c>> \in wr

C9_Witness ==
    /\ op = "QBXL2P"
    /\ wg # NoArray
    /\ Idle
    /\ Cardinality({w[2] : w \in wr}) >= 2
    /\ Cardinality(wr) >= 3
    /\ result # pre.result

\* C11 (as stated): after P2QBXM the row of every source s is strengths[s]
\* times the formation coefficients at displacement zero.
C11_P2QBXMZeroDisplacement ==
    op = "P2QBXM" =>
        \A s \in Sources : src_qbx_expansions[s] = Scale(strengths[s], P2ECoeffs(0))

\* C11 (amended): after P2QBXM the row of every source s is strengths[s]
\* times the formation coefficients at displacement qbx_centers[s] -
\* sources[s], qbx_centers being the per-source centres passed in; it is one
\* row per source, depends on no other source and not on the row's previous
\* contents, and the displacement is zero exactly where the centre passed
\* for s is the source itself.
C11_P2QBXMRows ==
    op = "P2QBXM" =>
        /\ DOMAIN src_qbx_expansions = Sources
        /\ \A s \in Sources :
              src_qbx_expansions[s] =
                  Scale(strengths[s], P2ECoeffs(kw.qbx_centers[s] - sources[s]))
        /\ \A s \in Sources :
              kw.qbx_centers[s] = sources[s]
                  => src_qbx_expansions[s] = Scale(strengths[s], P2ECoeffs(0))

C11_Witness ==
    /\ op = "P2QBXM"
    /\ \E s, u \in Sources :
          /\ kw.qbx_centers[s] # sources[s]
          /\ kw.qbx_centers[u] = sources[u]
          /\ src_qbx_expansions[s] # pre.src_qbx_expansions[s]
          /\ src_qbx_expansions[s] # Scale(strengths[s], P2ECoeffs(0))

\* the multipole of box b after a QBXM2M invocation with arguments a on arrays m
MultipoleAfterQBXM2M(a, m, b) ==
    IF b \in Range(a.boxes) THEN QBXM2MSum(m, b) ELSE m.mpole_exps[b]

\* C12: after QBXM2M the row of every box b of source_boxes is the sum, over
\* the sources s that b owns directly and no others, of the translation of
\* the per-source row of s across centers[b] - sources[s]; the rows of the
\* other boxes and the per-source rows are unchanged; and an M2QBXL that
\* follows with the same src_base_ibox reads, for b, the row QBXM2M wrote.
C12_QBXM2MRows ==
    /\ op = "QBXM2M" =>
          /\ \A b \in Boxes : mpole_exps[b] = MultipoleAfterQBXM2M(kw, pre, b)
          /\ \A b \in Range(kw.boxes) :
                View(mpole_exps, kw.base_ibox, kw.nboxes)[b - kw.base_ibox]
                    = QBXM2MSum(pre, b)
          /\ src_qbx_expansions = pre.src_qbx_expansions
    /\ (op = "M2QBXL" /\ prev.op = "QBXM2M" /\ kw.base_ibox = prev.kw.base_ibox) =>
          \A c \in Centers :
              LET K == SlicePositions(qbx_center_to_target_box[c])
              IN  qbx_expansions[c] =
                      VecAdd(pre.qbx_expansions[c],
                             SumRows([k \in K |->
                                         E2ECoeffs(qbx_centers[c] - centers[kw.lists[k]],
                                                   MultipoleAfterQBXM2M(prev.kw, prev.pre,
                                                                        kw.lists[k]))], K))

C12_Witness ==
    /\ op = "M2QBXL"
    /\ prev.op = "QBXM2M"
    /\ kw.base_ibox = prev.kw.base_ibox
    /\ kw.base_ibox > 0
    /\ \E b \in Range(prev.kw.boxes) :
          /\ \E s \in Sources : s \notin OwnSources(b) /\ box_source_starts[b] <= s
          /\ Cardinality(Range(prev.kw.boxes)) >= 2
          /\ QBXM2MSum(prev.pre, b) # prev.pre.mpole_exps[b]
          /\ \E c \in Centers : \E k \in SlicePositions(qbx_center_to_target_box[c]) :
                kw.lists[k] = b

\* the slices of the adjacency lists of a, one sequence per owner
SlicesOf(a) ==
    [t \in 1..(Size(a.starts) - 1) |->
        [j \in 1..(a.starts[t] - a.starts[t - 1]) |-> a.lists[a.starts[t - 1] + j - 1]]]

\* the rearrangements of a sequence
Rearrangements(seq) ==
    {[i \in 1..Len(seq) |-> seq[p[i]]] : p \in Permutations(1..Len(seq))}

\* the arguments a with the entries inside every owner's slice rearranged
PermutedArgs(a) ==
    LET sl == SlicesOf(a)
        all == UNION {Rearrangements(sl[t]) : t \in DOMAIN sl}
    IN  {[a EXCEPT !.starts = CSRStarts(psl), !.lists = CSRLists(psl)] :
            psl \in {f \in [DOMAIN sl -> all] : \A t \in DOMAIN sl : f[t] \in Rearrangements(sl[t])}}

\* C13: P2QBXLFromCSR, M2QBXL and QBXM2PFromCSR produce the same rows /
\* result values when the entries inside the owners' slices are permuted and
\* all other inputs are kept (exact arithmetic).
C13_OrderIndependence ==
    /\ op = "P2QBXLFromCSR" =>
          \A pa \in PermutedArgs(kw) :
              P2QBXLFromCSR_kernel(pa, pre.qbx_expansions, 0) = qbx_expansions
    /\ op = "M2QBXL" =>
          \A pa \in PermutedArgs(kw) :
              M2QBXL_kernel(pa, View(pre.mpole_exps, kw.base_ibox, kw.nboxes),
                            pre.qbx_expansions) = qbx_expansions
    /\ op = "QBXM2PFromCSR" =>
          \A pa \in PermutedArgs(kw) :
              QBXM2PFromCSR_kernel(pa, pre.src_qbx_expansions, pre.result, 0) = result

C13_Witness ==
    /\ op = "QBXM2PFromCSR"
    /\ Cardinality(PermutedArgs(kw)) >= 6
    /\ \E pa \in PermutedArgs(kw) : pa.lists # kw.lists /\ pa.starts = kw.starts
    /\ result # pre.result
    /\ prev.op = "M2QBXL"
    /\ Cardinality(PermutedArgs(prev.kw)) >= 2
    /\ pre.qbx_expansions # prev.pre.qbx_expansions

\* what the sequential loop of the running kernel makes of the arrays in pre
SequentialRows ==
    IF op = "M2QBXL"
    THEN M2QBXL_kernel(kw, View(pre.mpole_exps, kw.base_ibox, kw.nboxes),
                       pre.qbx_expansions)
    ELSE L2QBXL_kernel(kw, View(local_exps, kw.base_ibox, kw.nboxes),
                       pre.qbx_expansions, ZeroRow)

\* C14: when the centres of M2QBXL or L2QBXL are spread over parallel
\* workers, each reducing privately and then doing one non-atomic
\* load-and-store of its row, no row of qbx_expansions is written by two
\* workers, and whatever the interleaving, once all workers are done
\* qbx_expansions is what the sequential loop produces.
C14_RowIndependence ==
    (op \in CenterAccumulators /\ wg # NoArray) =>
        /\ \A w, x \in wr : w[1] = x[1] => w[2] = x[2]
        /\ \A c \in DOMAIN wg :
              wg[c].pc = "loaded" => wg[c].old = qbx_expansions[c]
        /\ WorkersDone => qbx_expansions = SequentialRows

C14_Witness ==
    /\ op = "M2QBXL"
    /\ wg # NoArray
    /\ WorkersDone
    /\ Cardinality(wr) = ncenters
    /\ prev.op = "L2QBXL"
    /\ pre.qbx_expansions # prev.pre.qbx_expansions
    /\ \A c \in Centers : qbx_expansions[c] # pre.qbx_expansions[c]

\* the active centres whose target list under the arguments a holds t
ServedBy(a, t) ==
    {c \in Range(a.global_qbx_centers) : \E k \in SliceOf(a, c) : a.lists[k] = t}

\* the value QBXL2P stores for target t from the row of centre c in rows
Evaluation(rows, c, t) ==
    Scale(kernel_scaling, E2PResults(targets[t] - qbx_centers[c], rows[c]))

\* C15: no operator keeps lifecycle state or rejects an invocation: whatever
\* ran before, P2QBXLFromCSR, M2QBXL, L2QBXL and QBXL2P can each be invoked
\* next; QBXL2P evaluates the rows as they are at that moment; and when
\* M2QBXL or L2QBXL runs after QBXL2P, result is left as QBXL2P wrote it,
\* the evaluation of the rows before the later contribution.
C15_NoOrderingEnforcement ==
    /\ ncalls < MaxCalls =>
          /\ ENABLED CallP2QBXLFromCSR
          /\ ENABLED CallM2QBXL
          /\ ENABLED CallL2QBXL
          /\ ENABLED CallQBXL2P
    /\ op = "QBXL2P" =>
          \A t \in Targets : \A c \in ServedBy(kw, t) :
              result[t] = Evaluation(pre.qbx_expansions, c, t)
    /\ (op \in CenterAccumulators /\ prev.op = "QBXL2P") =>
          /\ result = pre.result
          /\ \A t \in Targets : \A c \in ServedBy(prev.kw, t) :
                result[t] = Evaluation(prev.pre.qbx_expansions, c, t)

C15_Witness ==
    /\ op \in CenterAccumulators
    /\ prev.op = "QBXL2P"
    /\ \E t \in Targets : \E c \in ServedBy(prev.kw, t) :
          /\ qbx_expansions[c] # pre.qbx_expansions[c]
          /\ result[t] # Evaluation(qbx_expansions, c, t)

\* C16: of two runs that differ only in that every strength (and every box
\* expansion formed from the strengths) of the second is alpha times that of
\* the first, the second has alpha times the first's value in every row
\* P2QBXM writes, in every row P2QBXLFromCSR writes, and, after
\* P2QBXLFromCSR, M2QBXL, L2QBXL and QBXL2P in this order, in every result
\* slot QBXL2P writes.
C16_Linearity ==
    /\ op = "P2QBXM" =>
          \A s \in Sources :
              scaled.src_qbx_expansions[s] = Scale(scaled.alpha, src_qbx_expansions[s])
    /\ op = "P2QBXLFromCSR" =>
          \A c \in Range(global_qbx_centers) :
              scaled.qbx_expansions[c] = Scale(scaled.alpha, qbx_expansions[c])
    /\ op = "QBXL2P" =>
          \A t \in Targets :
              ServedBy(kw, t) # {} => scaled.result[t] = Scale(scaled.alpha, result[t])

C16_Witness ==
    /\ op = "QBXL2P"
    /\ scaled.alpha = 3
    /\ prev.op = "L2QBXL"
    /\ \E t, u \in Targets :
          /\ ServedBy(kw, t) # {}
          /\ result[t] # ZeroResult
          /\ result[t] # pre.result[t]
          /\ \E c \in ServedBy(kw, t) :
                pre.qbx_expansions[c] # prev.pre.qbx_expansions[c]
          /\ ServedBy(kw, u) = {}
          /\ scaled.result[u] = result[u]

\* the positions of the log holding a P2QBXLFromCSR invocation
Formations == {i \in DOMAIN log : log[i].op = "P2QBXLFromCSR"}

\* the last of them
LastFormation == CHOOSE i \in Formations : \A j \in Formations : j <= i

\* the logged M2QBXL or L2QBXL invocation e applied to the rows qbx
Reapply(e, qbx) ==
    IF e.op = "M2QBXL"
    THEN M2QBXL_kernel(e.kw, View(mpole_exps, e.kw.base_ibox, e.kw.nboxes), qbx)
    ELSE L2QBXL_kernel(e.kw, View(local_exps, e.kw.base_ibox, e.kw.nboxes), qbx, ZeroRow)

\* C17: after any sequence of whole invocations of P2QBXLFromCSR, M2QBXL
\* and L2QBXL that holds a P2QBXLFromCSR, the row of every active centre is
\* the sum formed by the last P2QBXLFromCSR plus the contributions of
\* exactly the M2QBXL and L2QBXL invocations after it (so a P2QBXLFromCSR
\* discards what ran before it); and two M2QBXL/L2QBXL invocations in a
\* row give the same rows when run in the other order.
C17_PipelineComposition ==
    /\ Formations # {} =>
          LET later == (LastFormation + 1)..Len(log)
          IN  \A c \in Range(global_qbx_centers) :
                  qbx_expansions[c] =
                      VecAdd(P2QBXLSum(log[LastFormation].kw, c),
                             SumRows([i \in later |->
                                         Contribution(log[i].op, log[i].kw, Snapshot, c)],
                                     later))
    /\ (Len(log) >= 2 /\ op \in CenterAccumulators /\ prev.op \in CenterAccumulators) =>
          qbx_expansions =
              Reapply(log[Len(log) - 1], Reapply(log[Len(log)], prev.pre.qbx_expansions))

C17_Witness ==
    /\ Len(log) = 3
    /\ log[1].op = "M2QBXL"
    /\ log[2].op = "P2QBXLFromCSR"
    /\ log[3].op = "L2QBXL"
    /\ \E c \in Range(global_qbx_centers) :
          /\ Contribution(log[1].op, log[1].kw, Snapshot, c) # ZeroRow
          /\ P2QBXLSum(log[2].kw, c) # ZeroRow
          /\ Contribution(log[3].op, log[3].kw, Snapshot, c) # ZeroRow
          /\ qbx_expansions[c] # pre.qbx_expansions[c]
          /\ pre.qbx_expansions[c] # prev.pre.qbx_expansions[c]

\* the integer sum of f over the finite set S
RECURSIVE SumOver(_, _)
SumOver(f, S) ==
    IF S = {} THEN 0
    ELSE LET x == CHOOSE y \in S : TRUE
         IN  f[x] + SumOver(f, S \ {x})

\* the potential of kernel k at the point x
PotentialAt(k, x) ==
    SumOver([s \in DOMAIN nodes |-> density[s] * KernelValue(k, x - nodes[s])],
            DOMAIN nodes)

\* the potential of kernel k at the nodes of the target named t, in the
\* shape of that target
PotentialOn(k, t) ==
    IF Places[t].is_discretization
    THEN [g \in DOMAIN Places[t].nodes |->
             [j \in DOMAIN Places[t].nodes[g] |-> PotentialAt(k, Places[t].nodes[g][j])]]
    ELSE [i \in DOMAIN Places[t].nodes |-> PotentialAt(k, Places[t].nodes[i])]

\* C18: exec_compute_potential_insn returns one (name, value) pair per
\* entry of insn.outputs, in their order, the value being the potential of
\* the kernel with index o.kernel_index at o's target discretization; it
\* obtains the P2P routine at most once, and not at all for no outputs; the
\* timing data returned is empty; return_timing_data = true adds one
\* warning and changes nothing else.
C18_ExecComputePotential ==
    /\ exec.gets <= 1
    /\ exec.gets = 1 => exec.outputs # <<>>
    /\ exec.warnings = IF exec.return_timing_data
                       THEN <<"UnableToCollectTimingData">> ELSE <<>>
    /\ exec.pc = "returned" =>
          /\ Len(exec.returned[1]) = Len(exec.outputs)
          /\ \A i \in DOMAIN exec.outputs :
                exec.returned[1][i] =
                    <<exec.outputs[i].name,
                      PotentialOn(exec.outputs[i].kernel_index, exec.outputs[i].target_name)>>
          /\ exec.returned[2] = {}
          /\ exec.outputs # <<>> => exec.gets = 1

C18_Witness ==
    /\ exec.pc = "returned"
    /\ exec.return_timing_data
    /\ Len(exec.outputs) = 2
    /\ exec.outputs[1].kernel_index = 1
    /\ exec.outputs[1].target_name = "mesh"
    /\ exec.outputs[2].kernel_index = 0
    /\ exec.outputs[2].target_name = "pts"
    /\ exec.outputs[1].name = exec.outputs[2].name
    /\ exec.returned[1][1][2] # exec.returned[1][2][2]

====
